---- MODULE Spec2Model ----
(***************************************************************************)
(* A model of cloudwatch-metrics (index.js, src/summarySet.js): the Metric *)
(* emitter with its point buffer, its summary table, its two interval      *)
(* timers and the batches it hands to CloudWatchClient#send.               *)
(*                                                                         *)
(* Every method of Metric is an operator from the emitter's world (its     *)
(* fields, the timer table of the event loop and the calls made to the     *)
(* backend) to the world after the call; an action applies the operators   *)
(* one handler calls, in the order the handler calls them.                 *)
(*                                                                         *)
(* Strings are sequences of one-character strings, so that makeKey is the  *)
(* concatenation the template literal computes.  Numbers are integers;     *)
(* the aggregator's bounds are extended numbers (Infinity, -Infinity).     *)
(* Time is counted in ticks.  options.withTimestamp and                    *)
(* options.storageResolution keep their defaults (false, undefined).       *)
(***************************************************************************)
EXTENDS Integers, Sequences, FiniteSets, Bags, TLC

\* Bounds of the model.
MaxWrites == 3
MaxCapacity == 2
SendInterval == 1
SummaryInterval == 2

\* ------------------------------------------------------------------------
\* Values of the inputs.

NUL == "\\0"
Undefined == 0

namespace == <<"n", "s">>
units == <<"C">>
Env == [Name |-> <<"e">>, Value |-> <<"P">>]
defaultDimensions == <<Env>>

DimA == [Name |-> <<"a">>, Value |-> <<"1">>]
DimB == [Name |-> <<"b">>, Value |-> <<"2">>]

Values == {1, 2}
MetricNames == {<<"m">>}
UnitOverrides == {<<"P">>}
PutDimensions == {<<DimA>>}
SummaryDimensions == {<<DimA, DimB>>, <<DimB, DimA>>}
\* Math.random() and sampleRate, in tenths.
Draws == {0, 5, 9}
Rates == {-5, 0, 5, 10}
\* The argument forms of put and summaryPut: (value, name), (value, name, dims),
\* (value, name, unit) and (value, name, unit, dims).
ArgForms == {"vn", "vnd", "vnu", "vnud"}

\* ------------------------------------------------------------------------
\* Extended numbers: a finite integer, Infinity or -Infinity.

Fin(n) == [inf |-> 0, v |-> n]
Infinity == [inf |-> 1, v |-> 0]
NegInfinity == [inf |-> -1, v |-> 0]
NumLess(a, b) == IF a.inf # b.inf THEN a.inf < b.inf ELSE a.v < b.v
MathMin(a, b) == IF NumLess(b, a) THEN b ELSE a
MathMax(a, b) == IF NumLess(a, b) THEN b ELSE a

\* ------------------------------------------------------------------------
\* src/summarySet.js

\* reset() leaving the maximum as it is.
SummarySet_reset_keepsMax(set) ==
    [set EXCEPT !.min = set.minSentinel, !.sum = 0, !.count = 0]

\* reset() leaving the count as it is.
SummarySet_reset_keepsCount(set) ==
    [set EXCEPT !.sum = 0, !.min = set.minSentinel, !.max = set.maxSentinel]

SummarySet_reset(set) ==
    [set EXCEPT !.min = set.minSentinel, !.max = set.maxSentinel,
                !.sum = 0, !.count = 0]

SummarySet_new(minSentinel, maxSentinel) ==
    SummarySet_reset([minSentinel |-> minSentinel, maxSentinel |-> maxSentinel,
                      min |-> minSentinel, max |-> maxSentinel,
                      sum |-> 0, count |-> 0])

\* put with Math.min and Math.max exchanged.
SummarySet_put_minMaxSwapped(set, value) ==
    [set EXCEPT !.sum = @ + value,
                !.min = MathMax(@, Fin(value)),
                !.max = MathMin(@, Fin(value)),
                !.count = @ + 1]

\* put that leaves the minimum alone.
SummarySet_put_noMin(set, value) ==
    [set EXCEPT !.sum = @ + value,
                !.max = MathMax(@, Fin(value)),
                !.count = @ + 1]

SummarySet_put(set, value) ==
    [set EXCEPT !.sum = @ + value,
                !.min = MathMin(@, Fin(value)),
                !.max = MathMax(@, Fin(value)),
                !.count = @ + 1]

SummarySet_size(set) == set.count

SummarySet_peek(set) ==
    [Minimum |-> set.min, Maximum |-> set.max,
     Sum |-> set.sum, SampleCount |-> set.count]

\* get() without the reset.
SummarySet_get_noReset(set) ==
    [result |-> SummarySet_peek(set), set |-> set]

\* get() with the reset before the peek.
SummarySet_get_resetFirst(set) ==
    [result |-> SummarySet_peek(SummarySet_reset(set)), set |-> SummarySet_reset(set)]

\* get(): the result of peek() and the set after reset().
SummarySet_get(set) ==
    [result |-> SummarySet_peek(set), set |-> SummarySet_reset(set)]

\* ------------------------------------------------------------------------
\* The state.

VARIABLES
    options,          \* self.options: enabled, maxCapacity, sendInterval, summaryInterval
    storedMetrics,    \* self._storedMetrics
    summaryData,      \* this._summaryData, a Map in insertion order
    interval,         \* self._interval: a timer handle, or Undefined
    summaryInterval,  \* this._summaryInterval: a timer handle, or Undefined
    timers,           \* the active timers of the event loop
    nextHandle,       \* the handle the next setInterval returns
    sent,             \* the calls made to cloudwatch.send, in order
    inflight,         \* the indices in sent whose callback is still to come
    reported,         \* the calls made to options.sendCallback: which send, what err
    accepted,         \* history: the payloads of the puts made on an enabled emitter
    pending,          \* history: per summary identity, the values written since its last drain
    last,             \* the call or timer callback the emitter ran last
    aggregator        \* a SummarySet on its own, with the values put since its last
                      \* reset, the method called last and what it returned

vars == <<options, storedMetrics, summaryData, interval, summaryInterval,
          timers, nextHandle, sent, inflight, reported, accepted, pending, last, aggregator>>

\* The emitter and its environment as one record.
World ==
    [options |-> options, storedMetrics |-> storedMetrics,
     summaryData |-> summaryData, interval |-> interval,
     summaryInterval |-> summaryInterval, timers |-> timers,
     nextHandle |-> nextHandle, sent |-> sent, inflight |-> inflight]

Commit(w) ==
    /\ options' = w.options
    /\ storedMetrics' = w.storedMetrics
    /\ summaryData' = w.summaryData
    /\ interval' = w.interval
    /\ summaryInterval' = w.summaryInterval
    /\ timers' = w.timers
    /\ nextHandle' = w.nextHandle
    /\ sent' = w.sent
    /\ inflight' = w.inflight

\* ------------------------------------------------------------------------
\* The event loop and the backend.

\* global.setInterval(fn, ms): a new timer, due every ms ticks. The caller
\* stores the handle, w.nextHandle.
setInterval(w, fn, ms) ==
    [w EXCEPT !.timers = @ \cup {[h |-> w.nextHandle, fn |-> fn, ms |-> ms, left |-> ms]},
              !.nextHandle = @ + 1]

\* global.clearInterval(h): no timer has the handle Undefined.
clearInterval(w, h) ==
    [w EXCEPT !.timers = {t \in @ : t.h # h}]

\* A send that gives up the calls still unanswered.
send_oneAtATime(w, MetricData, from) ==
    [w EXCEPT !.sent = Append(@, [MetricData |-> MetricData,
                                   Namespace |-> namespace, from |-> from]),
              !.inflight = {Len(w.sent) + 1}]

\* cloudwatch.send(new PutMetricDataCommand({MetricData, Namespace}), sendCallback)
send(w, MetricData, from) ==
    [w EXCEPT !.sent = Append(@, [MetricData |-> MetricData,
                                   Namespace |-> namespace, from |-> from]),
              !.inflight = @ \cup {Len(w.sent) + 1}]

\* ------------------------------------------------------------------------
\* index.js: Metric

\* The constructor starting the timers whatever options.enabled is.
Metric_alwaysTimers(opts) ==
    LET w0 == [options |-> opts, storedMetrics |-> <<>>, summaryData |-> <<>>,
               interval |-> Undefined, summaryInterval |-> Undefined,
               timers |-> {}, nextHandle |-> 1, sent |-> <<>>, inflight |-> {}]
        w1 == [setInterval(w0, "_sendMetrics", opts.sendInterval)
                  EXCEPT !.interval = w0.nextHandle]
    IN  [setInterval(w1, "_summarizeMetrics", opts.summaryInterval)
            EXCEPT !.summaryInterval = w1.nextHandle]

Metric(opts) ==
    LET w0 == [options |-> opts, storedMetrics |-> <<>>, summaryData |-> <<>>,
               interval |-> Undefined, summaryInterval |-> Undefined,
               timers |-> {}, nextHandle |-> 1, sent |-> <<>>, inflight |-> {}]
        w1 == [setInterval(w0, "_sendMetrics", opts.sendInterval)
                  EXCEPT !.interval = w0.nextHandle]
        w2 == [setInterval(w1, "_summarizeMetrics", opts.summaryInterval)
                  EXCEPT !.summaryInterval = w1.nextHandle]
    IN  IF opts.enabled THEN w2 ELSE w0

\* _sendMetrics that sends the buffer and keeps it.
_sendMetrics_keepsBuffer(w) ==
    IF Len(w.storedMetrics) = 0 THEN w ELSE send(w, w.storedMetrics, "_sendMetrics")

\* _sendMetrics without the test for an empty list.
_sendMetrics_noEmptyCheck(w) ==
    send([w EXCEPT !.storedMetrics = <<>>], w.storedMetrics, "_sendMetrics")

_sendMetrics(w) ==
    LET dataPoints == w.storedMetrics
        w1 == [w EXCEPT !.storedMetrics = <<>>]
    IN  IF Len(dataPoints) = 0 THEN w1 ELSE send(w1, dataPoints, "_sendMetrics")

Payload(value, metricName, unit, additionalDimensions) ==
    [MetricName |-> metricName,
     Dimensions |-> defaultDimensions \o additionalDimensions,
     Unit |-> unit,
     Value |-> value]

\* The capacity test with > for ===.
AtCapacity_gt(w) == Len(w.storedMetrics) > w.options.maxCapacity

\* The capacity test one point early.
AtCapacity_early(w) == Len(w.storedMetrics) + 1 = w.options.maxCapacity

\* if (self._storedMetrics.length === self.options.maxCapacity)
AtCapacity(w) == Len(w.storedMetrics) = w.options.maxCapacity

\* _put with the capacity test made before the push.
_put_testBeforePush(w, value, metricName, unit, additionalDimensions) ==
    LET payload == Payload(value, metricName, unit, additionalDimensions)
        w2 == clearInterval(w, w.interval)
        w3 == _sendMetrics(w2)
        w4 == [setInterval(w3, "_sendMetrics", w3.options.sendInterval)
                  EXCEPT !.interval = w3.nextHandle]
    IN  IF w.options.enabled
        THEN IF AtCapacity(w)
             THEN [w4 EXCEPT !.storedMetrics = Append(@, payload)]
             ELSE [w EXCEPT !.storedMetrics = Append(@, payload)]
        ELSE w

\* The point put at the front of the buffer.
_put_unshift(w, value, metricName, unit, additionalDimensions) ==
    LET payload == Payload(value, metricName, unit, additionalDimensions)
        w1 == [w EXCEPT !.storedMetrics = <<payload>> \o @]
        w2 == clearInterval(w1, w1.interval)
        w3 == _sendMetrics(w2)
        w4 == [setInterval(w3, "_sendMetrics", w3.options.sendInterval)
                  EXCEPT !.interval = w3.nextHandle]
    IN  IF w.options.enabled
        THEN IF AtCapacity(w1) THEN w4 ELSE w1
        ELSE w

\* The flush at capacity leaving the timer as it is.
_put_keepsTimer(w, value, metricName, unit, additionalDimensions) ==
    LET payload == Payload(value, metricName, unit, additionalDimensions)
        w1 == [w EXCEPT !.storedMetrics = Append(@, payload)]
    IN  IF w.options.enabled
        THEN IF AtCapacity(w1) THEN _sendMetrics(w1) ELSE w1
        ELSE w

\* The flush at capacity setting a new timer without clearing the one set.
_put_noClear(w, value, metricName, unit, additionalDimensions) ==
    LET payload == Payload(value, metricName, unit, additionalDimensions)
        w1 == [w EXCEPT !.storedMetrics = Append(@, payload)]
        w3 == _sendMetrics(w1)
        w4 == [setInterval(w3, "_sendMetrics", w3.options.sendInterval)
                  EXCEPT !.interval = w3.nextHandle]
    IN  IF w.options.enabled
        THEN IF AtCapacity(w1) THEN w4 ELSE w1
        ELSE w

_put(w, value, metricName, unit, additionalDimensions) ==
    LET payload == Payload(value, metricName, unit, additionalDimensions)
        w1 == [w EXCEPT !.storedMetrics = Append(@, payload)]
        w2 == clearInterval(w1, w1.interval)
        w3 == _sendMetrics(w2)
        w4 == [setInterval(w3, "_sendMetrics", w3.options.sendInterval)
                  EXCEPT !.interval = w3.nextHandle]
    IN  IF w.options.enabled
        THEN IF AtCapacity(w1) THEN w4 ELSE w1
        ELSE w

\* The unit of the call never taken.
ResolveArgs_noOverride(form, unit, dims) ==
    CASE form = "vn" -> [unit |-> units, dims |-> <<>>]
      [] form = "vnd" -> [unit |-> units, dims |-> dims]
      [] form = "vnu" -> [unit |-> units, dims |-> <<>>]
      [] form = "vnud" -> [unit |-> units, dims |-> dims]

\* The arguments put and summaryPut pass on: the unit and the dimensions.
ResolveArgs(form, unit, dims) ==
    CASE form = "vn" -> [unit |-> units, dims |-> <<>>]
      [] form = "vnd" -> [unit |-> units, dims |-> dims]
      [] form = "vnu" -> [unit |-> unit, dims |-> <<>>]
      [] form = "vnud" -> [unit |-> unit, dims |-> dims]

put(w, form, value, metricName, unit, dims) ==
    LET a == ResolveArgs(form, unit, dims)
    IN  _put(w, value, metricName, a.unit, a.dims)

\* hasMetrics counting the summary table's samples as well.
hasMetrics_anyData(w) ==
    \/ Len(w.storedMetrics) # 0
    \/ \E i \in DOMAIN w.summaryData : w.summaryData[i].set.count # 0

\* return !!this._storedMetrics.length
hasMetrics(w) == Len(w.storedMetrics) # 0

\* `${metricName}\0${units}`, then `\0${Name}\0${Value}` for each dimension.
RECURSIVE DimensionsKey(_)
DimensionsKey(dimensions) ==
    IF dimensions = <<>>
    THEN <<>>
    ELSE <<NUL>> \o Head(dimensions).Name \o <<NUL>> \o Head(dimensions).Value
         \o DimensionsKey(Tail(dimensions))

\* A key that takes the dimensions as a set: one order for every list of them.
makeKey_anyOrder(metricName, unit, dimensions) ==
    LET S == {dimensions[i] : i \in DOMAIN dimensions}
        ordered == CHOOSE f \in [1..Cardinality(S) -> S] : \A x \in S : \E i \in DOMAIN f : f[i] = x
    IN  metricName \o <<NUL>> \o unit \o DimensionsKey(ordered)

\* A key without the separator between the name and the unit.
makeKey_noSeparator(metricName, unit, dimensions) ==
    metricName \o unit \o DimensionsKey(dimensions)

makeKey(metricName, unit, dimensions) ==
    metricName \o <<NUL>> \o unit \o DimensionsKey(dimensions)

\* this._summaryData.get(key): the position of the entry, 0 for none.
MapGet(map, key) ==
    IF \E i \in 1..Len(map) : map[i].key = key
    THEN CHOOSE i \in 1..Len(map) : map[i].key = key
    ELSE 0

\* _summaryPut flushing the table when it holds maxCapacity entries, as _put
\* does with the buffer.
_summaryPut_flushAtCapacity(w, value, metricName, unit, additionalDimensions) ==
    LET key == makeKey(metricName, unit, additionalDimensions)
        i == MapGet(w.summaryData, key)
        allDimensions == defaultDimensions \o additionalDimensions
        entry == [key |-> key, MetricName |-> metricName, Unit |-> unit,
                  Dimensions |-> allDimensions,
                  set |-> SummarySet_put(SummarySet_new(Infinity, NegInfinity), value)]
        w1 == IF i # 0
              THEN [w EXCEPT !.summaryData[i].set = SummarySet_put(@, value)]
              ELSE [w EXCEPT !.summaryData = Append(@, entry)]
    IN  IF Len(w1.summaryData) = w1.options.maxCapacity
        THEN send(w1, [k \in DOMAIN w1.summaryData |->
                          [MetricName |-> w1.summaryData[k].MetricName,
                           Dimensions |-> w1.summaryData[k].Dimensions,
                           StatisticValues |-> SummarySet_peek(w1.summaryData[k].set),
                           Unit |-> w1.summaryData[k].Unit]],
                  "_putSummaryMetrics")
        ELSE w1

\* _summaryPut moving the record it writes to to the end of the table.
_summaryPut_moveToEnd(w, value, metricName, unit, additionalDimensions) ==
    LET key == makeKey(metricName, unit, additionalDimensions)
        i == MapGet(w.summaryData, key)
        allDimensions == defaultDimensions \o additionalDimensions
        entry == [key |-> key, MetricName |-> metricName, Unit |-> unit,
                  Dimensions |-> allDimensions,
                  set |-> SummarySet_put(SummarySet_new(Infinity, NegInfinity), value)]
    IN  IF i # 0
        THEN [w EXCEPT !.summaryData =
                 Append(SelectSeq(@, LAMBDA e : e.key # key),
                        [w.summaryData[i] EXCEPT !.set = SummarySet_put(@, value)])]
        ELSE [w EXCEPT !.summaryData = Append(@, entry)]

\* _summaryPut keeping the dimensions of the call without the default ones.
_summaryPut_callSiteDimensions(w, value, metricName, unit, additionalDimensions) ==
    LET key == makeKey(metricName, unit, additionalDimensions)
        i == MapGet(w.summaryData, key)
        entry == [key |-> key, MetricName |-> metricName, Unit |-> unit,
                  Dimensions |-> additionalDimensions,
                  set |-> SummarySet_put(SummarySet_new(Infinity, NegInfinity), value)]
    IN  IF i # 0
        THEN [w EXCEPT !.summaryData[i].set = SummarySet_put(@, value)]
        ELSE [w EXCEPT !.summaryData = Append(@, entry)]

_summaryPut(w, value, metricName, unit, additionalDimensions) ==
    LET key == makeKey(metricName, unit, additionalDimensions)
        i == MapGet(w.summaryData, key)
        allDimensions == defaultDimensions \o additionalDimensions
        entry == [key |-> key, MetricName |-> metricName, Unit |-> unit,
                  Dimensions |-> allDimensions,
                  set |-> SummarySet_put(SummarySet_new(Infinity, NegInfinity), value)]
    IN  IF i # 0
        THEN [w EXCEPT !.summaryData[i].set = SummarySet_put(@, value)]
        ELSE [w EXCEPT !.summaryData = Append(@, entry)]

summaryPut(w, form, value, metricName, unit, dims) ==
    LET a == ResolveArgs(form, unit, dims)
    IN  _summaryPut(w, value, metricName, a.unit, a.dims)

_putSummaryMetrics(w, MetricData) == send(w, MetricData, "_putSummaryMetrics")

\* The loop taking every entry.
SkipEntry_never(set) == FALSE

\* Whether the loop of _summarizeMetrics leaves out the entry: if (!set.size) continue
SkipEntry(set) == SummarySet_size(set) = 0

\* The last batch sent whether or not it holds a record.
PutRest_always(w, dataPoints) == _putSummaryMetrics(w, dataPoints)

\* if (dataPoints.length) this._putSummaryMetrics(dataPoints), after the loop.
PutRest(w, dataPoints) ==
    IF Len(dataPoints) # 0 THEN _putSummaryMetrics(w, dataPoints) ELSE w

\* The loop never sending before its end.
BatchFull_never(w, dataPoints) == FALSE

\* The capacity test with > for ===.
BatchFull_gt(w, dataPoints) == Len(dataPoints) > w.options.maxCapacity

\* if (dataPoints.length === this.options.maxCapacity), after the push.
BatchFull(w, dataPoints) == Len(dataPoints) = w.options.maxCapacity

\* The loop of _summarizeMetrics from entry i on, dataPoints gathered so far.
RECURSIVE SummarizeFrom(_, _, _)
SummarizeFrom(w, i, dataPoints) ==
    IF i > Len(w.summaryData)
    THEN PutRest(w, dataPoints)
    ELSE LET e == w.summaryData[i]
             g == SummarySet_get(e.set)
             w1 == [w EXCEPT !.summaryData[i].set = g.set]
             pushed == Append(dataPoints,
                              [MetricName |-> e.MetricName,
                               Dimensions |-> e.Dimensions,
                               StatisticValues |-> g.result,
                               Unit |-> e.Unit])
         IN  IF SkipEntry(e.set)
             THEN SummarizeFrom(w, i + 1, dataPoints)
             ELSE IF BatchFull(w, pushed)
                  THEN SummarizeFrom(_putSummaryMetrics(w1, pushed), i + 1, <<>>)
                  ELSE SummarizeFrom(w1, i + 1, pushed)

\* The flush deleting the entries it has sent.
_summarizeMetrics_deletes(w) ==
    LET w1 == SummarizeFrom(w, 1, <<>>)
    IN  [w1 EXCEPT !.summaryData = SelectSeq(w.summaryData, LAMBDA e : SkipEntry(e.set))]

_summarizeMetrics(w) == SummarizeFrom(w, 1, <<>>)

\* The test with <= for <.
Sampled_le(draw, sampleRate) == draw <= sampleRate

\* Math.random() < sampleRate
Sampled(draw, sampleRate) == draw < sampleRate

\* additionalDimensions is an array here, so sampleRate is the fifth argument.
_sample(w, value, metricName, unit, additionalDimensions, sampleRate, draw) ==
    IF Sampled(draw, sampleRate)
    THEN put(w, "vnud", value, metricName, unit, additionalDimensions)
    ELSE w

\* sample(...args): with four arguments the emitter's unit is passed on; with any
\* other number this.prototype is undefined and the call throws a TypeError.
SampleThrows(nargs) == nargs # 4

sample(w, nargs, value, metricName, unit, additionalDimensions, sampleRate, draw) ==
    IF nargs = 4
    THEN _sample(w, value, metricName, units, additionalDimensions, sampleRate, draw)
    ELSE w

\* shutdown clearing the point timer only.
shutdown_oneTimer(w) ==
    LET w1 == clearInterval(w, w.interval)
        w3 == _sendMetrics(w1)
    IN  _summarizeMetrics(w3)

\* shutdown flushing the summaries before the points.
shutdown_summaryFirst(w) ==
    LET w1 == clearInterval(w, w.interval)
        w2 == clearInterval(w1, w1.summaryInterval)
        w3 == _summarizeMetrics(w2)
    IN  _sendMetrics(w3)

shutdown(w) ==
    LET w1 == clearInterval(w, w.interval)
        w2 == clearInterval(w1, w1.summaryInterval)
        w3 == _sendMetrics(w2)
    IN  _summarizeMetrics(w3)

\* Either timer flushing the points and the summaries.
Callback_flushesBoth(w, fn) == _summarizeMetrics(_sendMetrics(w))

\* The callback of a timer: () => self._sendMetrics() or () => this._summarizeMetrics()
Callback(w, fn) ==
    IF fn = "_sendMetrics" THEN _sendMetrics(w) ELSE _summarizeMetrics(w)

\* ------------------------------------------------------------------------
\* History, kept beside the emitter to state the properties.

Step(op, fn, err) ==
    [op |-> op, fn |-> fn, err |-> err, nsent |-> Len(sent') - Len(sent)]

\* The number of writes made so far: point writes and summary writes.
RECURSIVE TotalOf(_)
TotalOf(p) == IF p = <<>> THEN 0 ELSE Head(p).total + TotalOf(Tail(p))

Writes == Len(accepted) + TotalOf(pending)

PendingIndex(id) ==
    IF \E i \in 1..Len(pending) : pending[i].id = id
    THEN CHOOSE i \in 1..Len(pending) : pending[i].id = id
    ELSE 0

\* A summary write of value to the identity id.
PendingWrite(id, value) ==
    LET i == PendingIndex(id)
    IN  IF i # 0
        THEN [pending EXCEPT ![i].values = Append(@, value), ![i].total = @ + 1]
        ELSE Append(pending, [id |-> id, values |-> <<value>>, total |-> 1])

\* A summary flush drains every identity.
PendingDrained == [i \in 1..Len(pending) |-> [pending[i] EXCEPT !.values = <<>>]]

\* new SummarySet({minSentinel, maxSentinel}), nothing put and nothing called yet.
Aggregator(minSentinel, maxSentinel) ==
    [set |-> SummarySet_new(minSentinel, maxSentinel),
     puts |-> <<>>, op |-> "new", result |-> <<>>]

\* ------------------------------------------------------------------------
\* The steps.

Init ==
    /\ \E enabled \in BOOLEAN, maxCapacity \in 1..MaxCapacity :
          LET w == Metric([enabled |-> enabled, maxCapacity |-> maxCapacity,
                           sendInterval |-> SendInterval,
                           summaryInterval |-> SummaryInterval])
          IN  /\ options = w.options
              /\ storedMetrics = w.storedMetrics
              /\ summaryData = w.summaryData
              /\ interval = w.interval
              /\ summaryInterval = w.summaryInterval
              /\ timers = w.timers
              /\ nextHandle = w.nextHandle
              /\ sent = w.sent
              /\ inflight = w.inflight
    /\ reported = {}
    /\ aggregator = Aggregator(Infinity, NegInfinity)
    /\ accepted = <<>>
    /\ pending = <<>>
    /\ last = [op |-> "new", fn |-> "-", err |-> "none", nsent |-> 0]

\* metric.put(...)
Put(form, value, metricName, unit, dims) ==
    /\ options.enabled => Writes < MaxWrites
    /\ Commit(put(World, form, value, metricName, unit, dims))
    /\ reported' = reported
    /\ aggregator' = aggregator
    /\ accepted' = IF options.enabled
                   THEN LET a == ResolveArgs(form, unit, dims)
                        IN  Append(accepted, Payload(value, metricName, a.unit, a.dims))
                   ELSE accepted
    /\ pending' = pending
    /\ last' = Step("put", "-", "none")

\* metric.summaryPut(...)
SummaryPut(form, value, metricName, unit, dims) ==
    /\ Writes < MaxWrites
    /\ Commit(summaryPut(World, form, value, metricName, unit, dims))
    /\ reported' = reported
    /\ aggregator' = aggregator
    /\ accepted' = accepted
    /\ pending' = LET a == ResolveArgs(form, unit, dims)
                  IN  PendingWrite(<<metricName, a.unit, a.dims>>, value)
    /\ last' = Step("summaryPut", "-", "none")

\* metric.sample(value, metricName, dims, sampleRate) and, with nargs = 5,
\* metric.sample(value, metricName, unit, dims, sampleRate); draw is Math.random().
Sample(nargs, value, metricName, unit, dims, sampleRate, draw) ==
    /\ options.enabled => Writes < MaxWrites
    /\ Commit(sample(World, nargs, value, metricName, unit, dims, sampleRate, draw))
    /\ reported' = reported
    /\ aggregator' = aggregator
    /\ accepted' = IF options.enabled /\ ~SampleThrows(nargs) /\ Sampled(draw, sampleRate)
                   THEN Append(accepted, Payload(value, metricName, units, dims))
                   ELSE accepted
    /\ pending' = pending
    /\ last' = Step("sample", "-", IF SampleThrows(nargs) THEN "TypeError" ELSE "none")

\* A timer that runs its callback once, as setTimeout would.
Fire_once(t) ==
    /\ t \in timers
    /\ Commit([Callback(World, t.fn) EXCEPT !.timers = @ \ {t}])
    /\ reported' = reported
    /\ aggregator' = aggregator
    /\ accepted' = accepted
    /\ pending' = IF t.fn = "_summarizeMetrics" THEN PendingDrained ELSE pending
    /\ last' = Step("timer", t.fn, "none")

\* The callback of timer t runs.
Fire(t) ==
    /\ t \in timers
    /\ Commit(Callback(World, t.fn))
    /\ reported' = reported
    /\ aggregator' = aggregator
    /\ accepted' = accepted
    /\ pending' = IF t.fn = "_summarizeMetrics" THEN PendingDrained ELSE pending
    /\ last' = Step("timer", t.fn, "none")

\* A timer that is due fires: its callback runs and the timer is set again.
FireDue(t) ==
    /\ t \in timers
    /\ t.left = 0
    /\ LET w == [World EXCEPT !.timers = (@ \ {t}) \cup {[t EXCEPT !.left = t.ms]}]
       IN  Commit(Callback(w, t.fn))
    /\ reported' = reported
    /\ aggregator' = aggregator
    /\ accepted' = accepted
    /\ pending' = IF t.fn = "_summarizeMetrics" THEN PendingDrained ELSE pending
    /\ last' = Step("timer", t.fn, "none")

\* Time passes, by one tick, once the timers that are due have fired.
Tick ==
    /\ timers # {}
    /\ \A t \in timers : t.left > 0
    /\ timers' = {[t EXCEPT !.left = @ - 1] : t \in timers}
    /\ UNCHANGED <<options, storedMetrics, summaryData, interval, summaryInterval,
                   nextHandle, sent, inflight, reported, accepted, pending, last, aggregator>>

\* metric.shutdown()
Shutdown ==
    /\ Commit(shutdown(World))
    /\ reported' = reported
    /\ aggregator' = aggregator
    /\ accepted' = accepted
    /\ pending' = PendingDrained
    /\ last' = Step("shutdown", "-", "none")

\* metric.hasMetrics(): it assigns nothing; last holds what it returned.
HasMetrics ==
    /\ Commit(World)
    /\ reported' = reported
    /\ aggregator' = aggregator
    /\ accepted' = accepted
    /\ pending' = pending
    /\ last' = [op |-> "hasMetrics", fn |-> "-", err |-> "none", nsent |-> 0,
                result |-> hasMetrics(World)]

\* An answer with an error putting the points of the batch back in the buffer.
SendCallback_requeue(i, err) ==
    /\ i \in inflight
    /\ inflight' = inflight \ {i}
    /\ err \in {"none", "error"}
    /\ reported' = reported \cup {[i |-> i, err |-> err]}
    /\ storedMetrics' = IF err = "error" /\ sent[i].from = "_sendMetrics"
                        THEN storedMetrics \o sent[i].MetricData
                        ELSE storedMetrics
    /\ UNCHANGED <<options, summaryData, interval, summaryInterval,
                   timers, nextHandle, sent, accepted, pending, last, aggregator>>

\* The backend answers call i: options.sendCallback(err) runs.
SendCallback(i, err) ==
    /\ i \in inflight
    /\ inflight' = inflight \ {i}
    /\ err \in {"none", "error"}
    /\ reported' = reported \cup {[i |-> i, err |-> err]}
    /\ UNCHANGED <<options, storedMetrics, summaryData, interval, summaryInterval,
                   timers, nextHandle, sent, accepted, pending, last, aggregator>>

\* The calls the application makes.
Calls ==
    \/ \E form \in {"vnd"}, value \in Values, metricName \in MetricNames,
          unit \in UnitOverrides, dims \in PutDimensions :
          Put(form, value, metricName, unit, dims)
    \/ \E form \in {"vnd"}, value \in Values, metricName \in MetricNames,
          unit \in UnitOverrides, dims \in SummaryDimensions :
          SummaryPut(form, value, metricName, unit, dims)
    \/ \E value \in Values, metricName \in MetricNames, unit \in UnitOverrides,
          dims \in PutDimensions, sampleRate \in Rates, draw \in Draws :
          Sample(4, value, metricName, unit, dims, sampleRate, draw)
    \/ \E metricName \in MetricNames, unit \in UnitOverrides, dims \in PutDimensions :
          Sample(5, 1, metricName, unit, dims, 10, 0)
    \/ Shutdown

\* Every interleaving of the calls with the timer callbacks; the backend's
\* answers are still to come.
Next ==
    \/ Calls
    \/ \E t \in timers : Fire(t)

Spec == Init /\ [][Next]_vars

\* The same with the backend answering, in any order.
NextBackend ==
    \/ Calls
    \/ \E t \in timers : Fire(t)
    \/ \E i \in inflight, err \in {"none", "error"} : SendCallback(i, err)

SpecBackend == Init /\ [][NextBackend]_vars

\* The writes, the flushes and the backend's answers, each answer with or
\* without an error.
NextAnswers ==
    \/ \E metricName \in MetricNames, unit \in UnitOverrides, dims \in PutDimensions :
          Put("vnd", 1, metricName, unit, dims)
    \/ \E metricName \in MetricNames, unit \in UnitOverrides, dims \in SummaryDimensions :
          SummaryPut("vnd", 1, metricName, unit, dims)
    \/ Shutdown
    \/ \E t \in timers : Fire(t)
    \/ \E i \in inflight, err \in {"none", "error"} : SendCallback(i, err)

SpecAnswers == Init /\ [][NextAnswers]_vars

\* The call-site dimensions of three summary identities.
ThreeDimensions == SummaryDimensions \cup {<<DimA>>}

\* Writes to three summary identities and to the buffer, the timer callbacks
\* and shutdown.
NextSummary ==
    \/ \E metricName \in MetricNames, unit \in UnitOverrides, dims \in PutDimensions :
          Put("vnd", 1, metricName, unit, dims)
    \/ \E value \in Values, metricName \in MetricNames, unit \in UnitOverrides,
          dims \in ThreeDimensions :
          SummaryPut("vnd", value, metricName, unit, dims)
    \/ Shutdown
    \/ \E t \in timers : Fire(t)

SpecSummary == Init /\ [][NextSummary]_vars

\* The point writes, shutdown and the timer callbacks.
NextPoints ==
    \/ \E value \in Values, metricName \in MetricNames, unit \in UnitOverrides,
          dims \in PutDimensions :
          Put("vnd", value, metricName, unit, dims)
    \/ Shutdown
    \/ \E t \in timers : Fire(t)

\* setInterval keeps calling back: the point timer, while it is set, fires
\* again and again.
PointTimerFair == WF_vars(\E t \in timers : t.fn = "_sendMetrics" /\ Fire(t))

SpecFair == Init /\ [][NextPoints]_vars /\ PointTimerFair

\* put and summaryPut called in each of their argument forms, the timer
\* callbacks and shutdown.
NextForms ==
    \/ \E form \in ArgForms, metricName \in MetricNames, unit \in UnitOverrides,
          dims \in PutDimensions :
          Put(form, 1, metricName, unit, dims)
    \/ \E form \in ArgForms, metricName \in MetricNames, unit \in UnitOverrides,
          dims \in PutDimensions :
          SummaryPut(form, 1, metricName, unit, dims)
    \/ Shutdown
    \/ \E t \in timers : Fire(t)

SpecForms == Init /\ [][NextForms]_vars

\* ------------------------------------------------------------------------
\* A SummarySet on its own.

\* The values put and the sentinels given to the constructor.
SetValues == {-2, 0, 1, 3}
MinSentinels == {Infinity, Fin(0)}
MaxSentinels == {NegInfinity, Fin(0)}

InitSet ==
    /\ \E minSentinel \in MinSentinels, maxSentinel \in MaxSentinels :
          aggregator = Aggregator(minSentinel, maxSentinel)
    /\ LET w == Metric([enabled |-> FALSE, maxCapacity |-> 1,
                        sendInterval |-> SendInterval,
                        summaryInterval |-> SummaryInterval])
       IN  /\ options = w.options
           /\ storedMetrics = w.storedMetrics
           /\ summaryData = w.summaryData
           /\ interval = w.interval
           /\ summaryInterval = w.summaryInterval
           /\ timers = w.timers
           /\ nextHandle = w.nextHandle
           /\ sent = w.sent
           /\ inflight = w.inflight
    /\ reported = {}
    /\ accepted = <<>>
    /\ pending = <<>>
    /\ last = [op |-> "new", fn |-> "-", err |-> "none", nsent |-> 0]

EmitterUnchanged ==
    UNCHANGED <<options, storedMetrics, summaryData, interval, summaryInterval,
                timers, nextHandle, sent, inflight, reported, accepted, pending, last>>

\* set.put(value)
SetPut(value) ==
    /\ Len(aggregator.puts) < MaxWrites
    /\ aggregator' = [set |-> SummarySet_put(aggregator.set, value),
                      puts |-> Append(aggregator.puts, value),
                      op |-> "put", result |-> <<>>]
    /\ EmitterUnchanged

\* set.peek()
SetPeek ==
    /\ aggregator' = [aggregator EXCEPT !.op = "peek",
                                        !.result = <<SummarySet_peek(aggregator.set)>>]
    /\ EmitterUnchanged

\* set.get()
SetGet ==
    /\ LET g == SummarySet_get(aggregator.set)
       IN  aggregator' = [set |-> g.set, puts |-> <<>>,
                          op |-> "get", result |-> <<g.result>>]
    /\ EmitterUnchanged

\* set.reset()
SetReset ==
    /\ aggregator' = [set |-> SummarySet_reset(aggregator.set), puts |-> <<>>,
                      op |-> "reset", result |-> <<>>]
    /\ EmitterUnchanged

NextSet ==
    \/ \E value \in SetValues : SetPut(value)
    \/ SetPeek
    \/ SetGet
    \/ SetReset

SpecSet == InitSet /\ [][NextSet]_vars

\* ------------------------------------------------------------------------
\* Summary identities that differ in one component.

\* Names and units whose concatenations coincide, and dimension lists that
\* differ in their order, in a value, in a name or in their length.
KeyNames == {<<"m">>, <<"m", "C">>}
KeyUnits == {<<"C", "a">>, <<"a">>}
KeyDimensions ==
    {<<DimA, DimB>>,
     <<DimB, DimA>>,
     <<DimA, [Name |-> <<"b">>, Value |-> <<"1">>]>>,
     <<DimA, [Name |-> <<"a">>, Value |-> <<"2">>]>>,
     <<DimA>>}

\* summaryPut(value, name, unit, dims) for each of them.
NextKeys ==
    \E metricName \in KeyNames, unit \in KeyUnits, dims \in KeyDimensions :
        SummaryPut("vnud", 1, metricName, unit, dims)

SpecKeys == Init /\ [][NextKeys]_vars

\* The same with the clock: a timer fires when it is due.
NextClock ==
    \/ Calls
    \/ \E t \in timers : FireDue(t)
    \/ Tick

SpecClock == Init /\ [][NextClock]_vars

\* ------------------------------------------------------------------------
\* The calls and the timer callbacks with hasMetrics() called in between.
NextQuery ==
    \/ Calls
    \/ \E t \in timers : Fire(t)
    \/ HasMetrics

SpecQuery == Init /\ [][NextQuery]_vars

\* maxCapacity: 20 in DEFAULT_METRIC_OPTIONS
DEFAULT_maxCapacity == 20

\* The maxCapacity of Object.assign({}, DEFAULT_METRIC_OPTIONS, options), for
\* the maxCapacity the caller's options hold, Undefined if they hold none.
AssignMaxCapacity(requested) ==
    IF requested = Undefined THEN DEFAULT_maxCapacity ELSE requested

\* The capacities asked for: none, one, the default and one above it.
RequestedCapacities == {Undefined, 1, DEFAULT_maxCapacity, 100}

\* The constructor called with each of them.
InitCapacity ==
    /\ \E enabled \in BOOLEAN, requested \in RequestedCapacities :
          LET w == Metric([enabled |-> enabled,
                           maxCapacity |-> AssignMaxCapacity(requested),
                           sendInterval |-> SendInterval,
                           summaryInterval |-> SummaryInterval])
          IN  /\ options = w.options
              /\ storedMetrics = w.storedMetrics
              /\ summaryData = w.summaryData
              /\ interval = w.interval
              /\ summaryInterval = w.summaryInterval
              /\ timers = w.timers
              /\ nextHandle = w.nextHandle
              /\ sent = w.sent
              /\ inflight = w.inflight
    /\ reported = {}
    /\ aggregator = Aggregator(Infinity, NegInfinity)
    /\ accepted = <<>>
    /\ pending = <<>>
    /\ last = [op |-> "new", fn |-> "-", err |-> "none", nsent |-> 0]

SpecCapacity == InitCapacity /\ [][Next]_vars

\* What the properties speak of.

Range(seq) == {seq[i] : i \in DOMAIN seq}

\* The elements of a sequence, each with the number of its occurrences.
BagOfSeq(seq) ==
    [x \in Range(seq) |-> Cardinality({i \in DOMAIN seq : seq[i] = x})]

RECURSIVE Flatten(_)
Flatten(batches) ==
    IF batches = <<>> THEN <<>> ELSE Head(batches).MetricData \o Flatten(Tail(batches))

IsPointBatch(b) == b.from = "_sendMetrics"
IsSummaryBatch(b) == b.from = "_putSummaryMetrics"
PointBatches(calls) == SelectSeq(calls, IsPointBatch)
SummaryBatches(calls) == SelectSeq(calls, IsSummaryBatch)

\* The calls to the backend made by the step.
NewCalls == SubSeq(sent', Len(sent) + 1, Len(sent'))

\* The emitter and its environment after the step.
WorldNext ==
    [options |-> options', storedMetrics |-> storedMetrics',
     summaryData |-> summaryData', interval |-> interval',
     summaryInterval |-> summaryInterval', timers |-> timers',
     nextHandle |-> nextHandle', sent |-> sent', inflight |-> inflight']

RECURSIVE SeqSum(_)
SeqSum(seq) == IF seq = <<>> THEN 0 ELSE Head(seq) + SeqSum(Tail(seq))
SeqMin(seq) == CHOOSE x \in Range(seq) : \A y \in Range(seq) : x <= y
SeqMax(seq) == CHOOSE x \in Range(seq) : \A y \in Range(seq) : x >= y

\* The statistics of a sequence of values, none for the empty one.
StatsOf(values) ==
    IF values = <<>>
    THEN [Minimum |-> Infinity, Maximum |-> NegInfinity, Sum |-> 0, SampleCount |-> 0]
    ELSE [Minimum |-> Fin(SeqMin(values)), Maximum |-> Fin(SeqMax(values)),
          Sum |-> SeqSum(values), SampleCount |-> Len(values)]

\* r is a record of the identity id = <<name, unit, call-site dimensions>>.
RecordOf(r, id) ==
    /\ r.MetricName = id[1]
    /\ r.Unit = id[2]
    /\ r.Dimensions = defaultDimensions \o id[3]

\* The statistics records sent by the step.
NewRecords == Flatten(SummaryBatches(NewCalls))

NoSamples == \A i \in DOMAIN summaryData : SummarySet_size(summaryData[i].set) = 0

SummaryTimerSet ==
    \E t \in timers : t.h = summaryInterval /\ t.fn = "_summarizeMetrics"

\* Two identities with the same name and unit and the same dimensions in another order.
Reordered(id1, id2) ==
    /\ id1[1] = id2[1]
    /\ id1[2] = id2[2]
    /\ id1[3] # id2[3]
    /\ Range(id1[3]) = Range(id2[3])
    /\ Len(id1[3]) = Len(id2[3])

\* The kinds of step.
PutAccepted == accepted' # accepted
PointTimerFires == \E t \in timers : t.fn = "_sendMetrics" /\ (Fire(t) \/ FireDue(t))
SummaryTimerFires == \E t \in timers : t.fn = "_summarizeMetrics" /\ (Fire(t) \/ FireDue(t))
SummaryFlush == SummaryTimerFires \/ Shutdown

\* ------------------------------------------------------------------------
\* The claims.

\* C1: on an enabled emitter every point accepted by put is, in every state,
\* either in the point buffer or in exactly one dispatched batch: the accepted
\* points, counted with their multiplicity, are those of the buffer plus those
\* of all point batches sent; none is in both, in two batches, or dropped.
C1_AcceptedOnce ==
    options.enabled =>
        BagOfSeq(accepted) = BagOfSeq(storedMetrics) (+) BagOfSeq(Flatten(PointBatches(sent)))

C1_Witness ==
    /\ options.enabled
    /\ Len(accepted) = MaxWrites
    /\ storedMetrics # <<>>
    /\ Len(PointBatches(sent)) >= 1
    /\ last.op = "put"

\* C2: after any put returns the buffer holds no more than maxCapacity points,
\* and a put that brings the buffer to maxCapacity leaves it empty.
C2_BufferBounded ==
    [][/\ Len(storedMetrics') <= options.maxCapacity
       /\ PutAccepted /\ Len(storedMetrics) + 1 = options.maxCapacity
             => storedMetrics' = <<>>]_vars

C2_Witness ==
    /\ last.op = "put"
    /\ last.nsent = 1
    /\ storedMetrics = <<>>
    /\ options.maxCapacity = MaxCapacity
    /\ Len(sent[Len(sent)].MetricData) = MaxCapacity

\* C3: a put that does not bring the buffer to maxCapacity dispatches nothing; a
\* point batch is dispatched only by the point timer, by a put that brings the
\* buffer to exactly maxCapacity, or by shutdown; and the buffer never holds
\* maxCapacity + 1 points.
C3_DispatchOnlyWhenDue ==
    [][/\ PutAccepted /\ Len(storedMetrics) + 1 # options.maxCapacity => sent' = sent
       /\ PointBatches(NewCalls) # <<>>
             => \/ PointTimerFires
                \/ PutAccepted /\ Len(storedMetrics) + 1 = options.maxCapacity
                \/ last'.op = "shutdown"
       /\ Len(storedMetrics') < options.maxCapacity + 1]_vars

C3_Witness ==
    /\ last.op = "put"
    /\ last.nsent = 0
    /\ Len(storedMetrics) = 1
    /\ Len(sent) = 1
    /\ IsPointBatch(sent[1])

\* C4: maxCapacity consecutive puts from an empty buffer produce exactly one
\* batch, holding those points in write order, and a point timer firing that
\* finds the buffer empty dispatches nothing.
C4_OneBatchPerCapacity ==
    [][/\ PutAccepted /\ Len(storedMetrics) = options.maxCapacity - 1
             => /\ Len(NewCalls) = 1
                /\ IsPointBatch(NewCalls[1])
                /\ NewCalls[1].MetricData =
                      SubSeq(accepted', Len(accepted') - options.maxCapacity + 1,
                             Len(accepted'))
                /\ storedMetrics' = <<>>
       /\ PointTimerFires /\ storedMetrics = <<>> => sent' = sent]_vars

C4_Witness ==
    /\ last.op = "timer"
    /\ last.fn = "_sendMetrics"
    /\ last.nsent = 0
    /\ options.maxCapacity = MaxCapacity
    /\ Len(accepted) = MaxCapacity
    /\ Len(sent) = 1
    /\ sent[1].MetricData = accepted

\* C5: no empty point batch is ever sent.
C5_NoEmptyPointBatch ==
    \A i \in DOMAIN sent : IsPointBatch(sent[i]) => Len(sent[i].MetricData) > 0

C5_Witness ==
    /\ options.enabled
    /\ last.op = "shutdown"
    /\ last.nsent = 0
    /\ Len(accepted) > 0
    /\ storedMetrics = <<>>

\* C6: on an enabled emitter the summary timer is set at construction with
\* _summarizeMetrics as its callback and stays set until shutdown, whatever the
\* table holds; a firing that finds no samples sends no batch, so that no
\* completion callback is due, and leaves the table as it was.
C6_EmptySummaryFlush ==
    /\ options.enabled => SummaryTimerSet
    /\ [][/\ SummaryTimerFires /\ NoSamples
                => /\ sent' = sent
                   /\ inflight' = inflight
                   /\ summaryData' = summaryData
          /\ SummaryTimerSet /\ ~Shutdown => SummaryTimerSet']_vars

C6_Witness ==
    /\ options.enabled
    /\ last.op = "timer"
    /\ last.fn = "_summarizeMetrics"
    /\ last.nsent = 0
    /\ Len(summaryData) = 2
    /\ sent # <<>>
    /\ sent[Len(sent)].from = "_putSummaryMetrics"

\* C7: at a summary flush, every identity written since its last drain gets
\* exactly one statistics record, with Minimum the least value written since
\* then, Maximum the greatest, Sum their sum and SampleCount their number.
C7_SummaryStatistics ==
    [][SummaryFlush =>
          \A i \in DOMAIN pending :
             pending[i].values # <<>> =>
                /\ Cardinality({k \in DOMAIN NewRecords :
                                   RecordOf(NewRecords[k], pending[i].id)}) = 1
                /\ \A k \in DOMAIN NewRecords :
                      RecordOf(NewRecords[k], pending[i].id) =>
                         NewRecords[k].StatisticValues = StatsOf(pending[i].values)]_vars

C7_Witness ==
    /\ last.op = "timer"
    /\ last.fn = "_summarizeMetrics"
    /\ last.nsent = 1
    /\ \E r \in Range(sent[Len(sent)].MetricData) :
          r.StatisticValues =
             [Minimum |-> Fin(1), Maximum |-> Fin(2), Sum |-> 3, SampleCount |-> 2]

\* C8: every statistics record sent has SampleCount >= 1.
C8_NoEmptyRecord ==
    \A i \in DOMAIN sent :
       IsSummaryBatch(sent[i]) =>
          \A k \in DOMAIN sent[i].MetricData :
             sent[i].MetricData[k].StatisticValues.SampleCount >= 1

C8_Witness ==
    /\ last.op = "timer"
    /\ last.fn = "_summarizeMetrics"
    /\ last.nsent = 1
    /\ Len(summaryData) = 2
    /\ Len(sent) = 2
    /\ Len(sent[2].MetricData) = 1

\* C9: two identities with the same metric name and unit and the same
\* dimensions in another order have two records in the table, each holding the
\* statistics of the values written to its own identity, and a summary flush
\* sends each its own statistics.
C9_DimensionOrder ==
    [][\A i, j \in DOMAIN pending' :
          Reordered(pending'[i].id, pending'[j].id) =>
             /\ \E a, b \in DOMAIN summaryData' :
                   /\ a # b
                   /\ RecordOf(summaryData'[a], pending'[i].id)
                   /\ RecordOf(summaryData'[b], pending'[j].id)
                   /\ SummarySet_peek(summaryData'[a].set) = StatsOf(pending'[i].values)
                   /\ SummarySet_peek(summaryData'[b].set) = StatsOf(pending'[j].values)
             /\ SummaryFlush /\ pending[i].values # <<>> /\ pending[j].values # <<>>
                   => \E a, b \in DOMAIN NewRecords :
                         /\ a # b
                         /\ RecordOf(NewRecords[a], pending[i].id)
                         /\ RecordOf(NewRecords[b], pending[j].id)
                         /\ NewRecords[a].StatisticValues = StatsOf(pending[i].values)
                         /\ NewRecords[b].StatisticValues = StatsOf(pending[j].values)]_vars

C9_Witness ==
    /\ last.op = "shutdown"
    /\ Len(pending) = 2
    /\ Reordered(pending[1].id, pending[2].id)
    /\ \E i, j \in DOMAIN sent :
          \E r1 \in Range(sent[i].MetricData), r2 \in Range(sent[j].MetricData) :
             /\ RecordOf(r1, pending[1].id)
             /\ RecordOf(r2, pending[2].id)
             /\ r1.StatisticValues.SampleCount = 2
             /\ r2.StatisticValues.SampleCount = 1

\* C10: sample(value, name, dims, rate) writes the point once, as put(value,
\* name, dims) does, if and only if the draw is less than rate, and changes
\* nothing otherwise. The draw is in [0, 1), so that a rate >= 1 always writes
\* and a rate <= 0 never does.
C10_SampleRate ==
    [][\A value \in Values, metricName \in MetricNames, unit \in UnitOverrides,
          dims \in PutDimensions, sampleRate \in Rates, draw \in Draws :
          Sample(4, value, metricName, unit, dims, sampleRate, draw) =>
             IF draw < sampleRate
             THEN /\ WorldNext = put(World, "vnd", value, metricName, unit, dims)
                  /\ options.enabled =>
                        Flatten(PointBatches(sent')) \o storedMetrics' =
                           Flatten(PointBatches(sent)) \o storedMetrics
                              \o <<[MetricName |-> metricName,
                                    Dimensions |-> defaultDimensions \o dims,
                                    Unit |-> units,
                                    Value |-> value]>>
             ELSE WorldNext = World]_vars

C10_Witness ==
    /\ last.op = "sample"
    /\ last.err = "none"
    /\ last.nsent = 1
    /\ Len(accepted) = 1
    /\ storedMetrics = <<>>

\* C11: construction starts two timers, one calling _sendMetrics and one
\* calling _summarizeMetrics, if and only if enabled is true; a firing leaves
\* both set (they recur); and an emitter constructed with enabled = false has
\* no timer in any state.
C11_TimersIffEnabled ==
    /\ IF options.enabled
       THEN /\ Cardinality(timers) = 2
            /\ \E t \in timers : t.h = interval /\ t.fn = "_sendMetrics"
            /\ \E t \in timers : t.h = summaryInterval /\ t.fn = "_summarizeMetrics"
       ELSE timers = {}
    /\ [](~options.enabled => timers = {})
    /\ [][(\E t \in timers : Fire(t) \/ FireDue(t)) =>
             {t.h : t \in timers'} = {t.h : t \in timers}]_vars

C11_Witness ==
    /\ ~options.enabled
    /\ last.op = "shutdown"
    /\ TotalOf(pending) = MaxWrites
    /\ timers = {}

\* C12: on an emitter constructed with enabled = false every write (put,
\* summaryPut, sample) is a no-op: the point buffer and the summary table are
\* empty in every state.
C12_DisabledWritesNoOp ==
    ~options.enabled => storedMetrics = <<>> /\ summaryData = <<>>

\* C13: an emitter constructed with enabled = false never passes a batch to
\* the backend, whatever sequence of put, summaryPut, sample and shutdown
\* calls it receives.
C13_DisabledNeverSends ==
    ~options.enabled => sent = <<>> /\ inflight = {}

\* The entries of the summary table that hold a sample.
NonEmptyEntries == {i \in DOMAIN summaryData : SummarySet_size(summaryData[i].set) > 0}

\* The record _summarizeMetrics builds from entry i of the table.
EntryRecord(i) ==
    [MetricName |-> summaryData[i].MetricName,
     Dimensions |-> summaryData[i].Dimensions,
     StatisticValues |-> SummarySet_peek(summaryData[i].set),
     Unit |-> summaryData[i].Unit]

\* C14: shutdown on an enabled emitter leaves no timer set, sends the buffered
\* points in one call (none if the buffer is empty) and one record for each
\* non-empty entry of the summary table, each exactly once; with at least one
\* buffered point and between one and maxCapacity non-empty entries it makes
\* exactly two calls; afterwards the buffer is empty and no entry has a sample.
C14_ShutdownFlushesOnce ==
    [][(Shutdown /\ options.enabled) =>
         /\ timers' = {}
         /\ Flatten(PointBatches(NewCalls)) = storedMetrics
         /\ Len(PointBatches(NewCalls)) = (IF storedMetrics = <<>> THEN 0 ELSE 1)
         /\ Len(NewRecords) = Cardinality(NonEmptyEntries)
         /\ \A i \in NonEmptyEntries :
               Cardinality({k \in DOMAIN NewRecords : NewRecords[k] = EntryRecord(i)}) = 1
         /\ (/\ storedMetrics # <<>>
             /\ Cardinality(NonEmptyEntries) \in 1..options.maxCapacity)
            => Len(NewCalls) = 2
         /\ storedMetrics' = <<>>
         /\ \A i \in DOMAIN summaryData' : SummarySet_size(summaryData'[i].set) = 0]_vars

C14_Witness ==
    /\ options.enabled
    /\ options.maxCapacity = MaxCapacity
    /\ last.op = "shutdown"
    /\ last.nsent = 2
    /\ IsPointBatch(sent[Len(sent) - 1])
    /\ IsSummaryBatch(sent[Len(sent)])
    /\ Len(sent[Len(sent)].MetricData) = MaxCapacity
    /\ timers = {}
    /\ storedMetrics = <<>>
    /\ NoSamples

\* C15: once shutdown has returned the emitter is stopped for good: no point
\* or summary timer is set, and none is ever set or fires again, whatever calls
\* follow. An enabled emitter has no timer set only after a shutdown, so the
\* claim says that a step from such a state leads to such a state.
C15_StoppedIsTerminal ==
    [][(options.enabled /\ timers = {}) =>
         (timers' = {} /\ ~PointTimerFires /\ ~SummaryTimerFires)]_vars

\* C16: whatever maxCapacity the constructor is given, the capacity in effect
\* is the smaller of it and 20, the default: it is never above 20, and no batch
\* sent, point or summary, holds more than 20 records.
C16_CapacityClamped ==
    /\ options.maxCapacity <= DEFAULT_maxCapacity
    /\ \A i \in DOMAIN sent : Len(sent[i].MetricData) <= DEFAULT_maxCapacity

\* C17: with a maxCapacity of at least one, every batch passed to the backend,
\* by a point flush or by a summary flush, holds at least one record and at
\* most maxCapacity records.
C17_BatchSize ==
    options.maxCapacity >= 1 =>
        \A i \in DOMAIN sent :
            /\ IsPointBatch(sent[i]) \/ IsSummaryBatch(sent[i])
            /\ Len(sent[i].MetricData) \in 1..options.maxCapacity

C17_Witness ==
    /\ options.maxCapacity < Len(summaryData)
    /\ last.op = "timer"
    /\ last.fn = "_summarizeMetrics"
    /\ last.nsent = Len(summaryData)
    /\ \E i \in DOMAIN sent : IsPointBatch(sent[i])

\* The timers calling _sendMetrics.
PointTimers(ts) == {t \in ts : t.fn = "_sendMetrics"}

\* C18: a put that brings the buffer to maxCapacity cancels the point timer
\* that was set (no timer has its handle afterwards), sends the drained buffer before it returns, and sets a new
\* point timer with the same interval and the whole of it still to run: the
\* next firing comes sendInterval after the flush, whatever was left of the
\* old timer's period. The summary timer is left as it was.
C18_CapacityFlushRestartsTimer ==
    [][(PutAccepted /\ Len(storedMetrics) + 1 = options.maxCapacity) =>
         /\ storedMetrics' = <<>>
         /\ Len(NewCalls) = 1
         /\ IsPointBatch(NewCalls[1])
         /\ interval' # interval
         /\ \A t \in timers' : t.h # interval
         /\ PointTimers(timers') =
               {[h |-> interval', fn |-> "_sendMetrics",
                 ms |-> options.sendInterval, left |-> options.sendInterval]}
         /\ timers' \ PointTimers(timers') = timers \ PointTimers(timers)]_vars

\* A capacity flush some time after construction: the summary timer has run a
\* part of its period, and the new point timer has a whole period to run.
C18_Witness ==
    /\ last.op = "put"
    /\ last.nsent = 1
    /\ interval > 2
    /\ \E t \in timers : t.h = interval /\ t.left = SendInterval
    /\ \E t \in timers : t.h = summaryInterval /\ t.left < SummaryInterval

\* C19: shutdown cancels both timers, then flushes the points, then the
\* summaries, in one step of the emitter: when the buffer and the summary table
\* both hold data, the calls it makes are the point batch first and summary
\* batches after it, nothing else, and no timer is set when it returns, so
\* none fires in between or after.
C19_ShutdownOrder ==
    [][(Shutdown /\ storedMetrics # <<>> /\ NonEmptyEntries # {}) =>
         /\ Len(NewCalls) >= 2
         /\ IsPointBatch(NewCalls[1])
         /\ NewCalls[1].MetricData = storedMetrics
         /\ \A k \in 2..Len(NewCalls) : IsSummaryBatch(NewCalls[k])
         /\ \A t \in timers' : t.h \notin {interval, summaryInterval}
         /\ last'.op = "shutdown"
         /\ last'.nsent = Len(NewCalls)]_vars

C19_Witness ==
    /\ options.enabled
    /\ last.op = "shutdown"
    /\ last.nsent = 2
    /\ Len(sent) > 2
    /\ IsPointBatch(sent[Len(sent) - 1])
    /\ Len(sent[Len(sent) - 1].MetricData) = 1
    /\ IsSummaryBatch(sent[Len(sent)])
    /\ Len(sent[Len(sent)].MetricData) = 1

\* C20: shutdown is idempotent: a shutdown that follows a shutdown with no
\* call in between makes no call to the backend, raises no error, and leaves
\* the buffer, the summary table, the timers and the rest of the emitter as
\* the first left them.
C20_ShutdownIdempotent ==
    [][(last.op = "shutdown" /\ Shutdown) =>
         /\ NewCalls = <<>>
         /\ last'.err = "none"
         /\ storedMetrics' = storedMetrics
         /\ summaryData' = summaryData
         /\ timers' = timers
         /\ WorldNext = World]_vars

\* A shutdown that sent nothing, after one that sent all that was written: on
\* an emitter without timers only shutdown sends.
C20_Witness ==
    /\ timers = {}
    /\ nextHandle = 1
    /\ last.op = "shutdown"
    /\ last.nsent = 0
    /\ Len(sent) = 1
    /\ TotalOf(pending) = MaxWrites
    /\ NoSamples

\* C21: hasMetrics() returns true exactly when the point buffer is non-empty,
\* whatever the summary table holds, and the call changes nothing of the
\* emitter (no batch sent, no timer set or cleared); called right after a
\* shutdown or after a put that flushed at capacity it returns false.
C21_HasMetrics ==
    /\ [](last.op = "hasMetrics" => (last.result <=> storedMetrics # <<>>))
    /\ [][HasMetrics =>
            /\ last'.result <=> (storedMetrics # <<>>)
            /\ WorldNext = World
            /\ (last.op = "shutdown" \/ (last.op = "put" /\ last.nsent = 1))
               => ~last'.result]_vars

C21_Witness ==
    /\ last.op = "hasMetrics"
    /\ ~last.result
    /\ ~NoSamples
    /\ sent # <<>>
    /\ timers # {}

\* C22: the order of the writes is kept: the point batches sent, in the order
\* of their sending, followed by the buffer are, point for point, the puts
\* accepted so far in the order they were made.
C22_WriteOrder ==
    Flatten(PointBatches(sent)) \o storedMetrics = accepted

C22_Witness ==
    /\ Len(accepted) = MaxWrites
    /\ accepted[1].Value # accepted[2].Value
    /\ Len(PointBatches(sent)) >= 1
    /\ Len(sent[1].MetricData) > 1
    /\ storedMetrics # <<>>

\* The backend answers a call with an error.
SendFails == \E i \in inflight : SendCallback(i, "error")

\* C23: a failure of the backend is passed to options.sendCallback and changes
\* nothing of the emitter: the step that reports it leaves the buffer, the
\* summary table, both timers and the list of calls made as they were (no
\* requeue, no retry), and in every state, whatever was reported, each accepted
\* point is in the buffer or in one batch sent, never in two.
C23_FailureChangesNothing ==
    /\ [](BagOfSeq(accepted) = BagOfSeq(storedMetrics \o Flatten(PointBatches(sent))))
    /\ [][SendFails =>
            /\ \E i \in inflight : reported' = reported \cup {[i |-> i, err |-> "error"]}
            /\ storedMetrics' = storedMetrics
            /\ summaryData' = summaryData
            /\ sent' = sent
            /\ timers' = timers
            /\ interval' = interval
            /\ summaryInterval' = summaryInterval
            /\ options' = options]_vars

\* A point batch failed, and a timer has sent a later batch since.
C23_Witness ==
    /\ \E r \in reported :
          /\ r.err = "error"
          /\ IsPointBatch(sent[r.i])
          /\ r.i < Len(sent)
    /\ Cardinality(timers) = 2
    /\ last.op = "timer"
    /\ last.nsent = 1
    /\ storedMetrics # <<>>

\* C24: no write raises an error to its caller: put, summaryPut and sample, in
\* every form of their arguments, sample with a unit (five arguments) among
\* them, return normally, on an enabled and on a disabled emitter.
C24_NoSynchronousThrow ==
    last.op \in {"put", "summaryPut", "sample"} => last.err = "none"

\* C25: the emitter never waits for an answer of the backend. Every call it
\* makes is in flight at once, beside those already in flight; while calls are
\* in flight shutdown and every timer callback can run, and so can a write;
\* any call in flight may be the next one answered; and no step of the
\* emitter ends in an error.
C25_NeverWaits ==
    /\ [](inflight # {} =>
            /\ ENABLED Shutdown
            /\ \A t \in timers : ENABLED Fire(t)
            /\ Writes < MaxWrites =>
                  /\ ENABLED Put("vnd", 1, <<"m">>, <<"P">>, <<DimA>>)
                  /\ ENABLED SummaryPut("vnd", 1, <<"m">>, <<"P">>, <<DimA, DimB>>)
            /\ \A i \in inflight : ENABLED SendCallback(i, "none")
            /\ last.err = "none")
    /\ [][inflight \subseteq inflight' \/ \E i \in inflight : inflight' = inflight \ {i}]_vars
    /\ [][sent' # sent =>
            inflight' = inflight \cup (Len(sent) + 1 .. Len(sent'))]_vars

\* Calls in flight at once, and a later call answered before an earlier one.
C25_Witness ==
    /\ Cardinality(inflight) >= 2
    /\ \E r \in reported : \E i \in inflight : i < r.i
    /\ last.op = "put"
    /\ last.nsent = 1

\* C26: a summary flush, by the timer or by shutdown, that finds n entries
\* holding samples sends, with maxCapacity c, the whole number of batches
\* ceil(n / c), one after the other in the one step; each but the last holds c
\* records, the last between one and c, and each of the n entries has exactly
\* one record among them.
C26_SummaryBatches ==
    [][SummaryFlush =>
         LET n == Cardinality(NonEmptyEntries)
             c == options.maxCapacity
             B == SummaryBatches(NewCalls)
         IN  /\ Len(B) = (n + c - 1) \div c
             /\ \A k \in 1..(Len(B) - 1) : Len(B[k].MetricData) = c
             /\ Len(B) > 0 => Len(B[Len(B)].MetricData) = n - c * (Len(B) - 1)
             /\ Len(NewRecords) = n
             /\ \A i \in NonEmptyEntries :
                   Cardinality({k \in DOMAIN NewRecords : NewRecords[k] = EntryRecord(i)}) = 1
             /\ \A k \in 1..Len(NewCalls) :
                   IsPointBatch(NewCalls[k]) => k = 1 /\ ~SummaryTimerFires]_vars

\* Three entries flushed by the timer with a capacity of two: a batch of two, then one of one.
C26_Witness ==
    /\ Len(summaryData) = 3
    /\ options.maxCapacity = 2
    /\ last.op = "timer"
    /\ last.fn = "_summarizeMetrics"
    /\ last.nsent = 2
    /\ Len(sent[Len(sent) - 1].MetricData) = 2
    /\ Len(sent[Len(sent)].MetricData) = 1

\* Entry i of the summary table as the step leaves it is the record it was.
SameRecord(i) ==
    /\ i \in DOMAIN summaryData'
    /\ summaryData'[i].key = summaryData[i].key
    /\ summaryData'[i].MetricName = summaryData[i].MetricName
    /\ summaryData'[i].Unit = summaryData[i].Unit
    /\ summaryData'[i].Dimensions = summaryData[i].Dimensions

\* C27: no step deletes a record of the summary table or gives it another
\* identity, so the identities it holds only grow; a summary flush leaves
\* every record in place with its aggregator reset, no sample in it; and a
\* summaryPut to an identity whose record is drained adds no record: that
\* record then holds the one value written.
C27_RecordsPersist ==
    /\ [][\A i \in DOMAIN summaryData : SameRecord(i)]_vars
    /\ [][SummaryFlush =>
            /\ Len(summaryData') = Len(summaryData)
            /\ \A i \in DOMAIN summaryData' :
                  summaryData'[i].set = SummarySet_reset(summaryData[i].set)]_vars
    /\ [][\A i \in DOMAIN summaryData :
            (/\ SummarySet_size(summaryData[i].set) = 0
             /\ summaryData'[i].set # summaryData[i].set)
            => /\ Len(summaryData') = Len(summaryData)
               /\ \E value \in Values :
                     SummarySet_peek(summaryData'[i].set) = StatsOf(<<value>>)]_vars

\* A record written, drained by the timer and written again.
C27_Witness ==
    /\ last.op = "summaryPut"
    /\ Len(summaryData) = 1
    /\ SummarySet_size(summaryData[1].set) = 1
    /\ pending[1].total = 2
    /\ Len(SummaryBatches(sent)) = 1
    /\ timers # {}

\* A summaryPut was made by the step.
SummaryPutAccepted == TotalOf(pending') = TotalOf(pending) + 1

\* C28: summaryPut sends nothing and leaves the timers, their handles and the
\* point buffer as they were, however many entries and samples the summary
\* table holds; a summary batch is sent only by the callback of the summary
\* timer or by shutdown.
C28_SummaryPutFrame ==
    /\ [][SummaryPutAccepted =>
            /\ sent' = sent
            /\ inflight' = inflight
            /\ timers' = timers
            /\ interval' = interval
            /\ summaryInterval' = summaryInterval
            /\ nextHandle' = nextHandle
            /\ storedMetrics' = storedMetrics]_vars
    /\ [][SummaryBatches(NewCalls) # <<>> => SummaryFlush]_vars

\* More entries with samples than a batch may hold, and nothing sent.
C28_Witness ==
    /\ last.op = "summaryPut"
    /\ Cardinality(NonEmptyEntries) = MaxWrites
    /\ Cardinality(NonEmptyEntries) > options.maxCapacity
    /\ storedMetrics = <<>>
    /\ sent = <<>>
    /\ Cardinality(timers) = 2

\* The samples counted for the identity id in a sequence of statistics records.
RECURSIVE CountOf(_, _)
CountOf(records, id) ==
    IF records = <<>>
    THEN 0
    ELSE (IF RecordOf(Head(records), id) THEN Head(records).StatisticValues.SampleCount ELSE 0)
         + CountOf(Tail(records), id)

\* The samples the summary table holds for the identity id.
HeldFor(id) ==
    LET i == MapGet(summaryData, makeKey(id[1], id[2], id[3]))
    IN  IF i = 0 THEN 0 ELSE SummarySet_size(summaryData[i].set)

\* C29: on an enabled emitter every value given to summaryPut is counted in
\* exactly one statistics record, that of the first summary flush (timer or
\* shutdown) after the write: for every identity the SampleCounts of the
\* records sent plus the samples its aggregator holds are the number of
\* summaryPut calls made for it; a flush sends for each identity one record
\* counting the values written since the flush before, and none, changing
\* nothing, if there is no such value.
C29_CountedOnce ==
    /\ [](options.enabled =>
            \A k \in DOMAIN pending :
                /\ CountOf(Flatten(SummaryBatches(sent)), pending[k].id) + HeldFor(pending[k].id)
                      = pending[k].total
                /\ HeldFor(pending[k].id) = Len(pending[k].values))
    /\ [][(options.enabled /\ SummaryFlush) =>
            /\ \A k \in DOMAIN pending :
                  /\ CountOf(NewRecords, pending[k].id) = Len(pending[k].values)
                  /\ Cardinality({j \in DOMAIN NewRecords :
                                     RecordOf(NewRecords[j], pending[k].id)})
                        = (IF pending[k].values = <<>> THEN 0 ELSE 1)
            /\ (\A k \in DOMAIN pending : pending[k].values = <<>>) =>
                  /\ NewRecords = <<>>
                  /\ summaryData' = summaryData]_vars

\* Two values sent in one record by the timer, a third one waiting.
C29_Witness ==
    /\ options.enabled
    /\ last.op = "summaryPut"
    /\ Len(pending) = 1
    /\ pending[1].total = 3
    /\ HeldFor(pending[1].id) = 1
    /\ Len(sent) = 1
    /\ CountOf(sent[1].MetricData, pending[1].id) = 2
    /\ Cardinality(timers) = 2

\* The point timer of the emitter is set.
PointTimerSet == \E t \in timers : t.h = interval /\ t.fn = "_sendMetrics"

\* C30: the point timer recurs: its firing leaves it set, sends the buffer as
\* one batch if it holds a point and nothing otherwise, and leaves the buffer
\* empty; so, with the timer firing again and again, the n-th point accepted
\* while the timer is set is eventually among the points sent, for every n.
C30_PointTimerRecurs ==
    /\ [][PointTimerFires =>
            /\ timers' = timers
            /\ interval' = interval
            /\ storedMetrics' = <<>>
            /\ NewCalls = (IF storedMetrics = <<>>
                           THEN <<>>
                           ELSE <<[MetricData |-> storedMetrics,
                                   Namespace |-> namespace, from |-> "_sendMetrics"]>>)]_vars
    /\ \A n \in 1..MaxWrites :
          (Len(accepted) >= n /\ PointTimerSet)
             ~> (Len(Flatten(PointBatches(sent))) >= n)

\* The timer has fired, sent a batch smaller than maxCapacity, and is still set.
C30_Witness ==
    /\ last.op = "timer"
    /\ last.fn = "_sendMetrics"
    /\ last.nsent = 1
    /\ Len(sent) = 2
    /\ Len(sent[2].MetricData) < options.maxCapacity
    /\ PointTimerSet

\* The point the step has put: the last of the buffer, or of the batch sent
\* if the put flushed it.
NewestPoint ==
    IF storedMetrics' # <<>>
    THEN storedMetrics'[Len(storedMetrics')]
    ELSE LET b == sent'[Len(sent')].MetricData IN b[Len(b)]

\* The form has a unit argument, a dimensions argument.
HasUnit(form) == form \in {"vnu", "vnud"}
HasDims(form) == form \in {"vnd", "vnud"}

\* C31: the point put by put(value, name[, unit][, dims]) has the name and the
\* value of the call, Dimensions equal to the emitter's default dimensions
\* followed by the call's dimensions (none if the call has none), and Unit
\* equal to the call's unit if it has one and to the emitter's unit otherwise;
\* and every point in the buffer starts with the default dimensions.
C31_PayloadFields ==
    /\ [](\A k \in DOMAIN storedMetrics :
             /\ SubSeq(storedMetrics[k].Dimensions, 1, Len(defaultDimensions)) = defaultDimensions
             /\ storedMetrics[k].Unit \in {units} \cup UnitOverrides)
    /\ [][\A form \in ArgForms, metricName \in MetricNames, unit \in UnitOverrides,
            dims \in PutDimensions :
            (options.enabled /\ Put(form, 1, metricName, unit, dims)) =>
                /\ NewestPoint.MetricName = metricName
                /\ NewestPoint.Value = 1
                /\ NewestPoint.Dimensions =
                      defaultDimensions \o (IF HasDims(form) THEN dims ELSE <<>>)
                /\ NewestPoint.Unit = (IF HasUnit(form) THEN unit ELSE units)]_vars

\* A point put with a unit and dimensions after one put with neither, sent
\* together at capacity.
C31_Witness ==
    /\ last.op = "put"
    /\ last.nsent = 1
    /\ Len(sent[Len(sent)].MetricData) = 2
    /\ sent[Len(sent)].MetricData[1].Unit = units
    /\ sent[Len(sent)].MetricData[1].Dimensions = defaultDimensions
    /\ sent[Len(sent)].MetricData[2].Unit = <<"P">>
    /\ sent[Len(sent)].MetricData[2].Dimensions = <<Env, DimA>>

\* C32: get() returns what peek() would return and leaves the aggregator as
\* reset() would, with no sample; peek() leaves the aggregator as it was, so a
\* peek after a peek returns the same snapshot.
C32_GetIsPeekThenReset ==
    /\ [][SetGet =>
            /\ aggregator'.result = <<SummarySet_peek(aggregator.set)>>
            /\ aggregator'.set = SummarySet_reset(aggregator.set)
            /\ SummarySet_size(aggregator'.set) = 0]_vars
    /\ [][SetPeek =>
            /\ aggregator'.set = aggregator.set
            /\ aggregator'.result = <<SummarySet_peek(aggregator'.set)>>
            /\ aggregator.op = "peek" => aggregator'.result = aggregator.result]_vars

\* get() after the greatest number of puts, of values of both signs.
C32_Witness ==
    /\ aggregator.op = "get"
    /\ aggregator.result[1].SampleCount = MaxWrites
    /\ aggregator.result[1].Minimum = Fin(-2)
    /\ aggregator.result[1].Maximum = Fin(3)
    /\ SummarySet_size(aggregator.set) = 0

\* C36: after reset() or get() the aggregator is the one its constructor
\* would make with the same sentinels: the minimum is the min sentinel, the
\* maximum the max sentinel, sum, count and size are 0; so, with the default
\* sentinels, what it holds later are the statistics of the values put since,
\* and of no earlier one.
C36_ResetIsFresh ==
    /\ [][(SetReset \/ SetGet) =>
            /\ aggregator'.set =
                  SummarySet_new(aggregator.set.minSentinel, aggregator.set.maxSentinel)
            /\ SummarySet_peek(aggregator'.set) =
                  [Minimum |-> aggregator.set.minSentinel,
                   Maximum |-> aggregator.set.maxSentinel,
                   Sum |-> 0, SampleCount |-> 0]
            /\ SummarySet_size(aggregator'.set) = 0]_vars
    /\ []((/\ aggregator.set.minSentinel = Infinity
           /\ aggregator.set.maxSentinel = NegInfinity)
          => SummarySet_peek(aggregator.set) = StatsOf(aggregator.puts))

\* get() on an aggregator that held samples, made with sentinels of its own.
C36_Witness ==
    /\ aggregator.op = "get"
    /\ aggregator.result[1].SampleCount > 1
    /\ aggregator.result[1].Maximum = Fin(3)
    /\ aggregator.set.minSentinel = Fin(0)
    /\ aggregator.set = SummarySet_new(Fin(0), Fin(0))

\* C40: on an aggregator, after any sequence of put, peek, get and reset with
\* integer values, the count is the number of puts since the last reset or
\* get, and whenever it is above zero the minimum and the maximum are finite,
\* minimum <= maximum and count * minimum <= sum <= count * maximum.
C40_AggregatorBounds ==
    /\ aggregator.set.count = Len(aggregator.puts)
    /\ aggregator.set.count > 0 =>
          /\ aggregator.set.min.inf = 0
          /\ aggregator.set.max.inf = 0
          /\ aggregator.set.min.v <= aggregator.set.max.v
          /\ aggregator.set.count * aggregator.set.min.v <= aggregator.set.sum
          /\ aggregator.set.sum <= aggregator.set.count * aggregator.set.max.v

\* Values of both signs put after a reset, and the snapshot taken.
C40_Witness ==
    /\ aggregator.op = "peek"
    /\ aggregator.set.count = MaxWrites
    /\ aggregator.set.min.v < 0
    /\ aggregator.set.max.v > 0
    /\ aggregator.set.sum < 0

\* C33: two summaryPut calls write to the same record exactly if their names,
\* their units and their lists of dimensions are equal: the table has one
\* record for each identity written, in the order of their first writes, with
\* that identity's fields and the count and sum of the values written to it,
\* and none for two identities that differ in the name, the unit, a
\* dimension's name or a dimension's value.
C33_KeyEquality ==
    /\ Len(summaryData) = Len(pending)
    /\ \A k \in DOMAIN pending :
          /\ RecordOf(summaryData[k], pending[k].id)
          /\ SummarySet_peek(summaryData[k].set) = StatsOf(pending[k].values)
    /\ \A j, k \in DOMAIN summaryData :
          (summaryData[j].key = summaryData[k].key) <=> (pending[j].id = pending[k].id)

\* Two writes to one identity and one to an identity whose name followed by
\* its unit reads the same.
C33_Witness ==
    /\ Len(pending) = 2
    /\ pending[1].total = 2
    /\ pending[2].total = 1
    /\ pending[1].id[1] \o pending[1].id[2] = pending[2].id[1] \o pending[2].id[2]
    /\ pending[1].id[3] = pending[2].id[3]
    /\ SummarySet_size(summaryData[1].set) = 2
    /\ SummarySet_size(summaryData[2].set) = 1

\* The identity a summaryPut in the given form writes to.
IdentityOf(form, metricName, unit, dims) ==
    <<metricName,
      IF HasUnit(form) THEN unit ELSE units,
      IF HasDims(form) THEN dims ELSE <<>>>>

\* The statistics records sent so far.
SentRecords == Flatten(SummaryBatches(sent))

\* C34: a summaryPut writes to the record of its identity, which carries the
\* name of the call, the unit of the call if it has one and the emitter's unit
\* otherwise, and the default dimensions followed by the dimensions of the
\* call; every statistics record a summary flush sends is the record of one
\* identity that held samples, with that name, unit and dimensions; and so is
\* every statistics record sent so far, whatever the flush that sent it.
C34_RecordFields ==
    /\ [][\A form \in ArgForms, metricName \in MetricNames, unit \in UnitOverrides,
            dims \in PutDimensions :
            SummaryPut(form, 1, metricName, unit, dims) =>
                LET id == IdentityOf(form, metricName, unit, dims)
                IN  \E k \in DOMAIN summaryData' :
                       /\ pending'[k].id = id
                       /\ RecordOf(summaryData'[k], id)
                       /\ SummarySet_size(summaryData'[k].set) =
                             IF k \in DOMAIN summaryData
                             THEN SummarySet_size(summaryData[k].set) + 1
                             ELSE 1]_vars
    /\ [][SummaryFlush =>
            /\ \A j \in DOMAIN NewRecords :
                  \E k \in NonEmptyEntries :
                     /\ RecordOf(NewRecords[j], pending[k].id)
                     /\ NewRecords[j].StatisticValues = StatsOf(pending[k].values)
            /\ \A k \in NonEmptyEntries :
                  \E j \in DOMAIN NewRecords : RecordOf(NewRecords[j], pending[k].id)]_vars
    /\ [](\A j \in DOMAIN SentRecords :
             \E k \in DOMAIN pending : RecordOf(SentRecords[j], pending[k].id))

\* One identity written with a unit and dimensions and flushed twice by the
\* timer, the two records with that unit and those dimensions after the
\* default ones.
C34_Witness ==
    /\ Len(pending) = 1
    /\ pending[1].total = 2
    /\ Len(SentRecords) = 2
    /\ last.op = "timer"
    /\ \A j \in DOMAIN SentRecords :
          /\ SentRecords[j].Unit = <<"P">>
          /\ SentRecords[j].Dimensions = <<Env, DimA>>
          /\ SentRecords[j].StatisticValues = StatsOf(<<1>>)

\* The identities holding samples, in the order of their first writes.
HeldIdentities == SelectSeq(pending, LAMBDA p : p.values # <<>>)

\* C35: the records of the summary table stand in the order in which their
\* identities were first written, and no step moves one: not a write to an
\* identity the table has, not a flush; a summary flush sends the records of
\* the identities holding samples in that order.
C35_FirstWriteOrder ==
    /\ [](/\ Len(summaryData) = Len(pending)
          /\ \A k \in DOMAIN pending : RecordOf(summaryData[k], pending[k].id))
    /\ [][\A k \in DOMAIN pending :
            /\ k \in DOMAIN pending'
            /\ pending'[k].id = pending[k].id
            /\ SameRecord(k)]_vars
    /\ [][SummaryFlush =>
            /\ Len(NewRecords) = Len(HeldIdentities)
            /\ \A j \in DOMAIN NewRecords :
                  /\ RecordOf(NewRecords[j], HeldIdentities[j].id)
                  /\ NewRecords[j].StatisticValues = StatsOf(HeldIdentities[j].values)]_vars

\* One identity written and flushed, then written again along with a second
\* one: the next flush sends the record of the first before that of the second.
C35_Witness ==
    /\ Len(pending) = 2
    /\ pending[1].total = 2
    /\ pending[2].total = 1
    /\ Len(SentRecords) = 3
    /\ last.nsent > 0
    /\ RecordOf(SentRecords[1], pending[1].id)
    /\ RecordOf(SentRecords[2], pending[1].id)
    /\ RecordOf(SentRecords[3], pending[2].id)

\* The timers calling _summarizeMetrics.
SummaryTimers(ts) == {t \in ts : t.fn = "_summarizeMetrics"}

\* C37: in every state at most one timer calls _sendMetrics and at most one
\* calls _summarizeMetrics, and a timer that is set is the one whose handle the
\* emitter holds; a put that flushes at capacity leaves no timer with the
\* handle held before it and exactly one point timer, with a new handle.
C37_OneTimerOfEachKind ==
    /\ [](/\ Cardinality(PointTimers(timers)) <= 1
          /\ Cardinality(SummaryTimers(timers)) <= 1
          /\ timers = PointTimers(timers) \cup SummaryTimers(timers)
          /\ \A t \in PointTimers(timers) : t.h = interval
          /\ \A t \in SummaryTimers(timers) : t.h = summaryInterval)
    /\ [][(PutAccepted /\ NewCalls # <<>>) =>
            /\ \A t \in timers' : t.h # interval
            /\ Cardinality(PointTimers(timers')) = 1
            /\ SummaryTimers(timers') = SummaryTimers(timers)]_vars

\* Two flushes at capacity, the second by the last step: one point timer, the
\* fourth set, and the summary timer set at construction.
C37_Witness ==
    /\ last.op = "put"
    /\ last.nsent = 1
    /\ interval = 4
    /\ Cardinality(PointTimers(timers)) = 1
    /\ Cardinality(SummaryTimers(timers)) = 1
    /\ Cardinality(timers) = 2

\* shutdown has been called: the summary timer of an enabled emitter is set at
\* construction, and shutdown alone clears it.
ShutDown == options.enabled /\ ~SummaryTimerSet

\* The step sends a batch of points.
PointBatchSent == \E k \in DOMAIN NewCalls : IsPointBatch(NewCalls[k])

\* A put made by the step appends its point to the buffer, or sends it with
\* the buffer at capacity, and hasMetrics() tells whether the buffer holds a point.
WritesStillTaken ==
    /\ \A form \in ArgForms, value \in Values, metricName \in MetricNames,
          unit \in UnitOverrides, dims \in PutDimensions :
          Put(form, value, metricName, unit, dims) =>
             /\ accepted' = Append(accepted, NewestPoint)
             /\ \/ storedMetrics' = Append(storedMetrics, NewestPoint)
                \/ /\ Len(storedMetrics) + 1 = options.maxCapacity
                   /\ Len(NewCalls) = 1
                   /\ IsPointBatch(NewCalls[1])
                   /\ NewCalls[1].MetricData = Append(storedMetrics, NewestPoint)
    /\ hasMetrics(WorldNext) = (storedMetrics' # <<>>)

\* A batch of points is sent only by a put that brings the buffer to
\* maxCapacity or by shutdown.
SentAtCapacityOrShutdown ==
    PointBatchSent =>
       \/ Shutdown
       \/ PutAccepted /\ Len(storedMetrics) + 1 = options.maxCapacity

\* C38: after shutdown an enabled emitter still takes writes: a put appends
\* its point to the buffer (or sends it with the buffer, at capacity), so that
\* hasMetrics() is true again whenever the buffer holds a point; and the
\* points put since the shutdown are sent only by a put that brings the buffer
\* to maxCapacity or by another shutdown.
C38_WritesAfterShutdown ==
    [][ShutDown => WritesStillTaken /\ SentAtCapacityOrShutdown]_vars

\* A put that flushes the buffer at capacity.
CapacityFlush == PutAccepted /\ NewCalls # <<>>

\* C39: a flush of the points, by the point timer or by a put at capacity,
\* leaves the summary table, the summary timer and its handle as they were and
\* sends no statistics record; a flush by the summary timer leaves the point
\* buffer, the point timer and its handle as they were and sends no point; and
\* a step that sends both points and statistics records, or changes the timers
\* of both kinds, is a shutdown.
C39_FlushPathsIndependent ==
    /\ [][(PointTimerFires \/ CapacityFlush) =>
            /\ summaryData' = summaryData
            /\ summaryInterval' = summaryInterval
            /\ SummaryTimers(timers') = SummaryTimers(timers)
            /\ SummaryBatches(NewCalls) = <<>>]_vars
    /\ [][SummaryTimerFires =>
            /\ storedMetrics' = storedMetrics
            /\ interval' = interval
            /\ PointTimers(timers') = PointTimers(timers)
            /\ PointBatches(NewCalls) = <<>>]_vars
    /\ [][(\/ PointBatchSent /\ SummaryBatches(NewCalls) # <<>>
           \/ /\ PointTimers(timers') # PointTimers(timers)
              /\ SummaryTimers(timers') # SummaryTimers(timers))
          => Shutdown]_vars

\* The summary timer has sent the statistics and left a buffered point where
\* it was, both timers set.
C39_Witness ==
    /\ last.op = "timer"
    /\ last.fn = "_summarizeMetrics"
    /\ last.nsent = 1
    /\ storedMetrics # <<>>
    /\ NoSamples
    /\ PointTimerSet
    /\ SummaryTimerSet
====
